---- MODULE Spec2Model ----
(***************************************************************************)
(* Kibble-Zurek demo (src/app.py, src/helpers/qa.py): the job lifecycle    *)
(* driven by the Dash callbacks simulate, submit_job and cache_embeddings, *)
(* the status query get_job_status, and the start-up code that decides on  *)
(* the available samplers; the callback display_graphics_kink_density with *)
(* the stores it keeps; and the helpers of helpers/qa.py and                *)
(* helpers/kz_calcs.py called on their own.                                 *)
(*                                                                         *)
(* Every Dash callback is one atomic step.  A callback whose Input was     *)
(* written by another callback is pending until it runs (pend_submit,      *)
(* pend_cache); timer ticks interleave with pending callbacks.  The stores *)
(* hold the decoded (integer-keyed) form of the JSON dictionaries.         *)
(* Time is counted in units of TickUnit ms; strftime("%c") has a resolution *)
(* of one second.  A timer interval shorter than the unit counts as zero.  *)
(***************************************************************************)
EXTENDS Integers, Sequences, FiniteSets, TLC

VARIABLES
    solvers,               \* names of the solvers the client returned; {} when it failed (app.py 45-57)
    useClassical,          \* demo_configs.USE_CLASSICAL (app.py 60)
    wall,                  \* wall clock read by datetime.now(), in units of TickUnit ms
    elapsed,               \* time since the dcc.Interval wd_job was last re-armed
    adjusts,               \* number of backward wall-clock adjustments so far
    btn_simulate_disabled, \* btn_simulate.disabled
    wd_job_disabled,       \* wd_job.disabled
    wd_job_interval,       \* wd_job.interval (ms)
    job_submit_state,      \* job_submit_state.children
    job_submit_time,       \* job_submit_time.children
    embeddings_found,      \* embeddings_found.data
    embeddings_cached,     \* embeddings_cached.data
    embedding_is_cached,   \* embedding_is_cached.value
    spins,                 \* spins.value
    qpu_name,              \* qpu_selection.value
    controls_disabled,     \* anneal_duration / coupling_strength / spins / qpu_selection disabled
    job_id,                \* job_id.children
    jobs,                  \* problems known to the remote sampler API
    initial_warning,       \* initial_warning.data
    warning_modal_is_open, \* warning-modal.is_open
    solver_modal_is_open,  \* solver_modal.is_open
    pend_submit,           \* job_submit_time was written: submit_job is due
    pend_cache,            \* embeddings_found was written: cache_embeddings is due
    nclicks,               \* number of submit requests so far
    nsub,                  \* number of submission timestamps recorded so far
    last,                  \* what the last step did
    selected_problem,      \* selected-problem.data
    graph_display,         \* graph_display.value
    slider_J,              \* coupling_strength.value
    anneal_duration,       \* anneal_duration.value
    coupling_data,         \* coupling_data.data
    zne_estimates,         \* zne_estimates.data
    modal_trigger,         \* modal_trigger.data
    error_modal_is_open,   \* error-modal.is_open
    kz_data,               \* kz_data.data
    nedits,                \* number of changes of a setting of the graphs so far
    args,                  \* the arguments of a helper called on its own
    result                 \* what that call returned

\* The stores and controls of display_graphics_kink_density (app.py 364-385)
graphvars == <<selected_problem, graph_display, slider_J, anneal_duration,
               coupling_data, zne_estimates, modal_trigger, error_modal_is_open,
               kz_data, nedits>>

appvars == <<graphvars, solvers, useClassical, wall, elapsed, adjusts, btn_simulate_disabled,
          wd_job_disabled, wd_job_interval, job_submit_state, job_submit_time,
          embeddings_found, embeddings_cached, embedding_is_cached, spins, qpu_name,
          controls_disabled, job_id, jobs, initial_warning, warning_modal_is_open,
          solver_modal_is_open, pend_submit, pend_cache, nclicks, nsub, last>>

vars == <<appvars, args, result>>

----------------------------------------------------------------------------
(* Bounds of the model *)

MaxWall == 5
MaxAdjusts == 1
MaxClicks == 2
MaxRing == 3
MaxRows == 2
MaxEdits == 3

(* Program constants *)

IntervalClick == 500
IntervalFast == 200
IntervalSlow == 1000
IntervalDone == 100
IntervalError == 0

\* The unit of time of the model: the interval set by a submit request.
TickUnit == IntervalClick

----------------------------------------------------------------------------
(* Values *)

Classical == "Diffusion [Classical]"
Qpu64 == "Advantage_system6.4"
Qpu2 == "Advantage2_system1.1"
NoQpu == "none"

SA == -2
NoTime == -1
NoUpdateT == -3

NoJob == 0
SampleSetId == -1

\* coupling_strength default of create_bqm, in units of 0.1
DefaultJ == -14

NoUpdateS == "no_update"
Payload(kind, n, emb) == [kind |-> kind, spins |-> n, emb |-> emb]
Needed == Payload("needed", 0, <<>>)
NotFound == Payload("not found", 0, <<>>)
NoPayload == Payload("none", 0, <<>>)
NoUpdateE == Payload("no_update", 0, <<>>)

SpinOptions == {3, 4}
Spin == {-1, 1}
Qubits == 0..3

Min(a, b) == IF a < b THEN a ELSE b

\* No helper has been called on its own.
Call(fn, sampleset, J, num_spins, cached, found, target_graph) ==
    [fn |-> fn, sampleset |-> sampleset, J |-> J, num_spins |-> num_spins,
     cached |-> cached, found |-> found, target_graph |-> target_graph]
NoCall == Call("none", <<>>, 0, 0, <<>>, NoPayload, {})
NoResult == [done |-> FALSE, value |-> 0]
Returned(value) == [done |-> TRUE, value |-> value]

----------------------------------------------------------------------------
(* Start-up: app.py 45-68 *)

\* What client.get_solvers can return: the account sees the Pegasus QPU, the
\* Zephyr QPU, or the client fails.
SolverSets == {{}, {Qpu64}, {Qpu2}}

\* qpus after start-up: the solvers of the client when it is reachable, plus
\* the mock sampler when USE_CLASSICAL is set.
Qpus ==
    solvers \cup (IF useClassical THEN {Classical} ELSE {})

\* init_job_status: the try/except picks READY or NO SOLVER, line 65 then
\* overwrites it.
init_job_status ==
    LET after_try == IF solvers # {} THEN "READY" ELSE "NO SOLVER"
        after_line_65 == "READY"
    IN  after_line_65

\* client after start-up: `if not client: client = "dummy"` (a non-empty
\* string, truthy).
client == IF solvers # {} THEN "client" ELSE "dummy"

ClientIsTruthy(c) == c \in {"client", "dummy"}

\* alert_no_solver
alert_no_solver(triggered_id) ==
    triggered_id = "btn_simulate" /\ ~ClientIsTruthy(client)

----------------------------------------------------------------------------
(* Ring model and embeddings: helpers/qa.py *)

\* Coupling graph of the Pegasus QPU: the cycle 0-1-2-3 with the chord 0-2.
QpuEdges == {{0, 1}, {1, 2}, {2, 3}, {0, 3}, {0, 2}}

\* Coupling graph of the Zephyr QPU: the cycle 0-1-3-2.
Qpu2Edges == {{0, 1}, {1, 3}, {2, 3}, {0, 2}}

\* Adjacency of the mock sampler: the Pegasus graph at full yield, which has
\* every coupler of the Pegasus QPU and not the coupler 1-3 of the Zephyr one.
ClassicalEdges == QpuEdges

Edges(q) ==
    IF q = Classical THEN ClassicalEdges
    ELSE IF q = Qpu2 THEN Qpu2Edges
    ELSE QpuEdges

\* dimod BinaryQuadraticModel.add_quadratic: an interaction of a variable
\* with itself raises ValueError; a bias given for an interaction the model
\* already has is added to it.  An interaction is the set of its two variables.
add_quadratic(bqm, u, v, bias) ==
    IF bqm.raised THEN bqm
    ELSE IF u = v THEN [bqm EXCEPT !.raised = TRUE]
    ELSE [raised |-> FALSE,
          variables |-> bqm.variables \cup {u, v},
          quadratic |-> [e \in DOMAIN bqm.quadratic \cup {{u, v}} |->
                            IF e = {u, v}
                            THEN (IF e \in DOMAIN bqm.quadratic
                                  THEN bqm.quadratic[e] ELSE 0) + bias
                            ELSE bqm.quadratic[e]]]

RECURSIVE create_bqm_loop(_, _, _, _)
create_bqm_loop(bqm, spin, num_spins, coupling_strength) ==
    IF spin >= num_spins THEN bqm
    ELSE create_bqm_loop(
             add_quadratic(bqm, spin, (spin + 1) % num_spins, coupling_strength),
             spin + 1, num_spins, coupling_strength)

\* create_bqm: qa.py 34-50
create_bqm(num_spins, coupling_strength) ==
    create_bqm_loop([raised |-> FALSE, variables |-> {}, quadratic |-> <<>>],
                    0, num_spins, coupling_strength)

\* dimod.to_networkx_graph(create_bqm(num_spins=length)).edges: app.py 345
source_graph(length) == DOMAIN create_bqm(length, DefaultJ).quadratic

\* ring_edges of find_one_to_one_embedding: qa.py 65
ring_edges_of(n) == {<<i, (i + 1) % n>> : i \in 0..(n - 1)}

\* minorminer find_subgraph: a one-to-one map of the ring's spins to qubits
\* that sends every ring edge to a device edge; empty on time-out or when
\* there is none.  A map is the sequence of the qubits of spins 0..n-1.
find_subgraph(n, ring_edges, edgelist) ==
    {m \in [1..n -> Qubits] :
        /\ \A i, j \in 1..n : i # j => m[i] # m[j]
        /\ \A e \in ring_edges : {m[e[1] + 1], m[e[2] + 1]} \in edgelist}
    \cup {<<>>}

\* A variant whose chains hold the spin instead of the qubit found.
find_one_to_one_embedding_keys(emb_1to1) ==
    [k \in 1..Len(emb_1to1) |-> <<k - 1>>]

\* find_one_to_one_embedding: {k: (v,)} for the map found
find_one_to_one_embedding(emb_1to1) ==
    [k \in 1..Len(emb_1to1) |-> <<emb_1to1[k]>>]

\* dwave.embedding.is_valid_embedding for a ring of the given length
is_valid_embedding(emb, length, target_graph) ==
    /\ Len(emb) = length
    /\ \A k \in 1..Len(emb) : Len(emb[k]) = 1 /\ emb[k][1] \in Qubits
    /\ \A i, j \in 1..Len(emb) : i # j => emb[i][1] # emb[j][1]
    /\ \A e \in source_graph(length) : \A u, v \in e :
          (u # v) => ({emb[u + 1][1], emb[v + 1][1]} \in target_graph)

\* Persisted embeddings (helpers/emb_<qpu>.json): the entry of size 3 is
\* valid on the QPU, the entry of size 4 is stale (coupler 1-3 is not on the
\* device).
HasFile(q) == q = Qpu64
EmbFile(q) == (3 :> <<<<0>>, <<1>>, <<2>>>>) @@ (4 :> <<<<0>>, <<1>>, <<3>>, <<2>>>>)

----------------------------------------------------------------------------
(* Status query: helpers/qa.py get_job_status *)

Strftime(t) == t \div (1000 \div TickUnit)

IsProblemId(id) == id \in 1..Len(jobs)

\* The label time of a problem matches the recorded submission time.
LabelMatches(label_time, submit_time) == label_time = submit_time

\* The possible results: a status, "None", or "raise" when the call fails
\* outside what the function catches.  With the dummy client, client.config
\* fails before the try block.  An id that is no problem id of the API (the
\* initial job_id, a serialised sample set) is answered by an API error:
\* ResourceNotFoundError (caught: None) or another one (not caught).
get_job_status(c, id, submit_time) ==
    IF c = "dummy" THEN {"raise"}
    ELSE IF IsProblemId(id)
         THEN {IF LabelMatches(jobs[id].label, submit_time)
               THEN jobs[id].status ELSE "None"}
         ELSE {"None", "raise"}

----------------------------------------------------------------------------
(* Kink statistics: helpers/kz_calcs.py kink_stats.  A sample set is the   *)
(* sequence of its rows, a row the sequence of its spins (-1 or 1, int8:   *)
(* a difference is -2, 0 or 2 and does not overflow).  A mean is kept as a *)
(* fraction.                                                               *)

RECURSIVE SumSeq(_)
SumSeq(q) == IF q = <<>> THEN 0 ELSE Head(q) + SumSeq(Tail(q))

\* np.diff(row, prepend=first): each element minus the one before it
np_diff(row, first) ==
    LET ext == <<first>> \o row
    IN  [i \in 1..Len(row) |-> ext[i + 1] - ext[i]]

\* The differences without the wrap-around (the first element is compared
\* with itself)
sign_switches_no_wrap(samples_array) ==
    [r \in 1..Len(samples_array) |->
        np_diff(samples_array[r], samples_array[r][1])]

\* lines 72-73: prepend is the last column
sign_switches(samples_array) ==
    [r \in 1..Len(samples_array) |->
        np_diff(samples_array[r], samples_array[r][Len(samples_array[r])])]

\* np.count_nonzero(a, 1): per row, the number of nonzero elements
count_nonzero(a) ==
    [r \in 1..Len(a) |-> Cardinality({i \in 1..Len(a[r]) : a[r][i] # 0})]

\* sign_switches == 0: the array of the truth values, True counting as 1
equals_zero(a) ==
    [r \in 1..Len(a) |-> [i \in 1..Len(a[r]) |-> IF a[r][i] = 0 THEN 1 ELSE 0]]

\* np.mean(counts) / shape[1]
mean_over(counts, shape1) == [num |-> SumSeq(counts), den |-> Len(counts) * shape1]

\* kink_stats taking J = 0 for ferromagnetic
kink_stats_ferro_at_zero(sampleset, J) ==
    LET samples_array == sampleset
        shape1 == Len(samples_array[1])
    IN  IF J <= 0
        THEN LET switches_per_sample == count_nonzero(sign_switches(samples_array))
             IN  [per_sample |-> switches_per_sample,
                  kink_density |-> mean_over(switches_per_sample, shape1)]
        ELSE LET non_switches_per_sample == count_nonzero(equals_zero(sign_switches(samples_array)))
             IN  [per_sample |-> non_switches_per_sample,
                  kink_density |-> mean_over(non_switches_per_sample, shape1)]

\* kink_stats counting the switches for either sign of J
kink_stats_switches_only(sampleset, J) ==
    LET samples_array == sampleset
        shape1 == Len(samples_array[1])
        switches_per_sample == count_nonzero(sign_switches(samples_array))
    IN  [per_sample |-> switches_per_sample,
         kink_density |-> mean_over(switches_per_sample, shape1)]

\* lines 54-87
kink_stats(sampleset, J) ==
    LET samples_array == sampleset
        shape1 == Len(samples_array[1])
    IN  IF J < 0
        THEN LET switches_per_sample == count_nonzero(sign_switches(samples_array))
             IN  [per_sample |-> switches_per_sample,
                  kink_density |-> mean_over(switches_per_sample, shape1)]
        ELSE LET non_switches_per_sample == count_nonzero(equals_zero(sign_switches(samples_array)))
             IN  [per_sample |-> non_switches_per_sample,
                  kink_density |-> mean_over(non_switches_per_sample, shape1)]

----------------------------------------------------------------------------
(* simulate: app.py 681-771.  The value returned, as a record; NoUpdateS,  *)
(* NoUpdateT and NoUpdateE stand for dash.no_update.  q counts the status  *)
(* queries made and s the embedding searches started by the call.          *)

Out(btn, wd, interval, state, time, emb, q, s, ret) ==
    [btn |-> btn, wd |-> wd, interval |-> interval, state |-> state,
     time |-> time, emb |-> emb, q |-> q, s |-> s, ret |-> ret]

RunningStates == {"EMBEDDING", "SUBMITTED", "PENDING", "IN_PROGRESS"}
PollStates == {"SUBMITTED", "PENDING", "IN_PROGRESS"}
DoneStates == {"COMPLETED", "CANCELLED", "FAILED"}

\* simulate_click without the recording of the submission time
simulate_click_no_time(cached_embedding_lengths, n, q, now) ==
    IF n \in cached_embedding_lengths \/ q = Classical
    THEN Out(TRUE, FALSE, IntervalClick, "SUBMITTED", NoUpdateT, NoUpdateE, 0, 0, "click")
    ELSE Out(TRUE, FALSE, IntervalClick, "EMBEDDING", NoUpdateT, Needed, 0, 0, "click")

\* lines 694-719
simulate_click(cached_embedding_lengths, n, q, now) ==
    IF n \in cached_embedding_lengths \/ q = Classical
    THEN Out(TRUE, FALSE, IntervalClick, "SUBMITTED",
             IF q = Classical THEN SA ELSE Strftime(now), NoUpdateE, 0, 0, "click")
    ELSE Out(TRUE, FALSE, IntervalClick, "EMBEDDING", NoUpdateT, Needed, 0, 0, "click")

\* simulate_embedding submitting in the tick that finds the embedding
simulate_embedding_no_wait(found, n, sub, now) ==
    IF found = Needed
    THEN IF sub.raised
         THEN Out(TRUE, FALSE, IntervalFast, "FAILED", NoUpdateT, NotFound, 0, 0, "raised")
         ELSE LET embedding == find_one_to_one_embedding(sub.map)
              IN  IF embedding # <<>>
                  THEN Out(TRUE, FALSE, IntervalFast, "SUBMITTED", Strftime(now),
                           Payload("found", n, embedding), 0, 1, "found")
                  ELSE Out(TRUE, FALSE, IntervalFast, "FAILED", NoUpdateT,
                           NotFound, 0, 1, "empty")
    ELSE Out(TRUE, FALSE, IntervalFast, "SUBMITTED", Strftime(now), NoUpdateE,
             0, 0, "cached")

\* simulate_embedding searching again after a search that raised
simulate_embedding_retry(found, n, sub, now) ==
    IF found = Needed
    THEN IF sub.raised
         THEN Out(TRUE, FALSE, IntervalFast, "EMBEDDING", NoUpdateT, NoUpdateE, 0, 0, "raised")
         ELSE LET embedding == find_one_to_one_embedding(sub.map)
              IN  IF embedding # <<>>
                  THEN Out(TRUE, FALSE, IntervalFast, "EMBEDDING", NoUpdateT,
                           Payload("found", n, embedding), 0, 1, "found")
                  ELSE Out(TRUE, FALSE, IntervalFast, "FAILED", NoUpdateT,
                           NotFound, 0, 1, "empty")
    ELSE Out(TRUE, FALSE, IntervalFast, "SUBMITTED", Strftime(now), NoUpdateE,
             0, 0, "cached")

\* simulate_embedding asking for another search after a successful one
simulate_embedding_search_again(found, n, sub, now) ==
    IF found = Needed
    THEN IF sub.raised
         THEN Out(TRUE, FALSE, IntervalFast, "FAILED", NoUpdateT, NotFound, 0, 0, "raised")
         ELSE LET embedding == find_one_to_one_embedding(sub.map)
              IN  IF embedding # <<>>
                  THEN Out(TRUE, FALSE, IntervalFast, "EMBEDDING", NoUpdateT,
                           Needed, 0, 1, "found")
                  ELSE Out(TRUE, FALSE, IntervalFast, "FAILED", NoUpdateT,
                           NotFound, 0, 1, "empty")
    ELSE Out(TRUE, FALSE, IntervalFast, "SUBMITTED", Strftime(now), NoUpdateE,
             0, 0, "cached")

\* lines 721-744; sub.map is what find_subgraph returns, sub.raised is set
\* when the try block raises (qpus[qpu_name] fails with KeyError)
simulate_embedding(found, n, sub, now) ==
    IF found = Needed
    THEN IF sub.raised
         THEN Out(TRUE, FALSE, IntervalFast, "FAILED", NoUpdateT, NotFound, 0, 0, "raised")
         ELSE LET embedding == find_one_to_one_embedding(sub.map)
              IN  IF embedding # <<>>
                  THEN Out(TRUE, FALSE, IntervalFast, "EMBEDDING", NoUpdateT,
                           Payload("found", n, embedding), 0, 1, "found")
                  ELSE Out(TRUE, FALSE, IntervalFast, "FAILED", NoUpdateT,
                           NotFound, 0, 1, "empty")
    ELSE Out(TRUE, FALSE, IntervalFast, "SUBMITTED", Strftime(now), NoUpdateE,
             0, 0, "cached")

\* simulate_poll with the two intervals exchanged
simulate_poll_swapped(status) ==
    IF status = "None"
    THEN Out(TRUE, FALSE, IntervalSlow, "SUBMITTED", NoUpdateT, NoUpdateE, 1, 0, status)
    ELSE Out(TRUE, FALSE, IntervalFast, status, NoUpdateT, NoUpdateE, 1, 0, status)

\* simulate_poll giving the Run button back while the job is polled
simulate_poll_enabled(status) ==
    IF status = "None"
    THEN Out(FALSE, FALSE, IntervalFast, "SUBMITTED", NoUpdateT, NoUpdateE, 1, 0, status)
    ELSE Out(FALSE, FALSE, IntervalSlow, status, NoUpdateT, NoUpdateE, 1, 0, status)

\* lines 746-754; status is what get_job_status returns
simulate_poll(status) ==
    IF status = "None"
    THEN Out(TRUE, FALSE, IntervalFast, "SUBMITTED", NoUpdateT, NoUpdateE, 1, 0, status)
    ELSE Out(TRUE, FALSE, IntervalSlow, status, NoUpdateT, NoUpdateE, 1, 0, status)

\* simulate_done writing READY instead of leaving the state alone
simulate_done_ready ==
    Out(FALSE, TRUE, IntervalDone, "READY", NoUpdateT, NoUpdateE, 0, 0, "done")

\* simulate_done writing a submission time once more
simulate_done_resubmit ==
    Out(FALSE, TRUE, IntervalDone, NoUpdateS, SA, NoUpdateE, 0, 0, "done")

\* lines 756-768
simulate_done ==
    Out(FALSE, TRUE, IntervalDone, NoUpdateS, NoUpdateT, NoUpdateE, 0, 0, "done")

\* simulate_error leaving the control disabled and the timer running
simulate_error_running ==
    Out(TRUE, FALSE, IntervalError, "ERROR", NoUpdateT, NoUpdateE, 0, 0, "error")

\* lines 770-771
simulate_error ==
    Out(FALSE, TRUE, IntervalError, "ERROR", NoUpdateT, NoUpdateE, 0, 0, "error")

\* simulate_tick polling once more in COMPLETED
simulate_tick_repoll(state, found, n, sub, status, now) ==
    IF state = "EMBEDDING" THEN simulate_embedding(found, n, sub, now)
    ELSE IF state \in PollStates \cup {"COMPLETED"} THEN simulate_poll(status)
    ELSE IF state \in DoneStates THEN simulate_done
    ELSE simulate_error

\* The timer-tick part of simulate, lines 721-771
simulate_tick(state, found, n, sub, status, now) ==
    IF state = "EMBEDDING" THEN simulate_embedding(found, n, sub, now)
    ELSE IF state \in PollStates THEN simulate_poll(status)
    ELSE IF state \in DoneStates THEN simulate_done
    ELSE simulate_error

\* disable_buttons: app.py 274-286
disable_buttons(state, was_disabled) ==
    IF state \notin RunningStates \cup DoneStates
    THEN was_disabled
    ELSE state \in RunningStates

----------------------------------------------------------------------------
(* cache_embeddings: app.py 323-361.  The value returned: the cache and the *)
(* list of its keys; raised when the callback fails, prevented when it      *)
(* raises PreventUpdate (in both cases no output is written).               *)

CacheOut(raised, prevented, cached, lengths) ==
    [raised |-> raised, prevented |-> prevented, cached |-> cached, lengths |-> lengths]

\* validate_and_prune stopping after the first entry it deletes
validate_and_prune_first_only(cached, target_graph) ==
    LET bad == {length \in DOMAIN cached :
                   ~is_valid_embedding(cached[length], length, target_graph)}
        first == {length \in bad : \A other \in bad : length <= other}
    IN  [length \in DOMAIN cached \ first |-> cached[length]]

\* lines 343-350: drop the entries that are no valid embedding on the target
validate_and_prune(cached, target_graph) ==
    LET keep == {length \in DOMAIN cached :
                    is_valid_embedding(cached[length], length, target_graph)}
    IN  [length \in keep |-> cached[length]]

\* lines 326-350
cache_embeddings_qpu(q) ==
    LET file_qpu == IF q = Classical THEN Qpu64 ELSE q
    IN  IF ~HasFile(file_qpu)
        THEN CacheOut(FALSE, FALSE, <<>>, {})
        ELSE IF file_qpu \notin Qpus
        THEN CacheOut(TRUE, FALSE, <<>>, {})
        ELSE LET pruned == validate_and_prune(EmbFile(file_qpu), Edges(file_qpu))
             IN  CacheOut(FALSE, FALSE, pruned, DOMAIN pruned)

\* cache_embeddings_found replacing the cache by the discovered embedding
cache_embeddings_found_replace(found, cached) ==
    IF found.kind # "found"
    THEN CacheOut(FALSE, TRUE, cached, DOMAIN cached)
    ELSE LET merged == [length \in {found.spins} |-> found.emb]
         IN  CacheOut(FALSE, FALSE, merged, DOMAIN merged)

\* lines 352-361
cache_embeddings_found(found, cached) ==
    IF found.kind # "found"
    THEN CacheOut(FALSE, TRUE, cached, DOMAIN cached)
    ELSE LET merged == [length \in DOMAIN cached \cup {found.spins} |->
                           IF length = found.spins THEN found.emb ELSE cached[length]]
         IN  CacheOut(FALSE, FALSE, merged, DOMAIN merged)

----------------------------------------------------------------------------
(* submit_job: app.py 601-657.  The outcome: "KeyError" (qpus[qpu_name] or  *)
(* embeddings_cached[spins] fails), "EmbeddingError" (embed_bqm rejects the *)
(* embedding), "SampleSet" (the mock sampler's samples are the job id) or   *)
(* "problem" (a problem was submitted to the QPU).                          *)

submit_job(q, n, cached) ==
    IF q \notin Qpus THEN "KeyError"
    ELSE IF n \notin DOMAIN cached THEN "KeyError"
    ELSE IF ~is_valid_embedding(cached[n], n, Edges(q)) THEN "EmbeddingError"
    ELSE IF q = Classical THEN "SampleSet"
    ELSE "problem"

----------------------------------------------------------------------------
(* Rational numbers, for kink densities, lambda and the fitted             *)
(* coefficients: [num, den] in lowest terms with a positive denominator.    *)

RECURSIVE GCD(_, _)
GCD(a, b) == IF b = 0 THEN a ELSE GCD(b, a % b)

Abs(a) == IF a < 0 THEN -a ELSE a

Frac(n, d) ==
    LET g == GCD(Abs(n), Abs(d))
        s == IF d < 0 THEN -1 ELSE 1
    IN  [num |-> (s * n) \div g, den |-> (s * d) \div g]

FromInt(n) == Frac(n, 1)
FAdd(a, b) == Frac(a.num * b.den + b.num * a.den, a.den * b.den)
FSub(a, b) == Frac(a.num * b.den - b.num * a.den, a.den * b.den)
FMul(a, b) == Frac(a.num * b.num, a.den * b.den)
FDiv(a, b) == Frac(a.num * b.den, a.den * b.num)

RECURSIVE FSum(_)
FSum(q) == IF q = <<>> THEN FromInt(0) ELSE FAdd(Head(q), FSum(Tail(q)))

----------------------------------------------------------------------------
(* The extrapolation fit: helpers/qa.py fitted_function.                    *)
(* Polynomial.fit(xdata**2, ydata, deg=1) solves the least-squares problem *)
(* y = a + b X in X = x**2.  numpy raises TypeError for an empty xdata.     *)
(* When all X are equal the problem has rank 1: numpy widens the domain to  *)
(* [X - 1, X + 1], maps every X to 0, takes the minimum-norm solution       *)
(* (the mean of ydata, slope 0) and issues RankWarning; nothing is raised.  *)

FitOut(raised, rank_warning, coeffs) ==
    [raised |-> raised, rank_warning |-> rank_warning, coeffs |-> coeffs]

\* lines 140-157: coeffs = <<a, b>> of y = a + b x**2
fitted_function(xdata, ydata) ==
    LET n  == Len(xdata)
        X  == [i \in 1..n |-> FMul(xdata[i], xdata[i])]
        Sx == FSum(X)
        Sy == FSum(ydata)
        Sxx == FSum([i \in 1..n |-> FMul(X[i], X[i])])
        Sxy == FSum([i \in 1..n |-> FMul(X[i], ydata[i])])
        D  == FSub(FMul(FromInt(n), Sxx), FMul(Sx, Sx))
    IN  IF n = 0 THEN FitOut(TRUE, FALSE, <<>>)
        ELSE IF D.num = 0
        THEN FitOut(FALSE, TRUE, <<FDiv(Sy, FromInt(n)), FromInt(0)>>)
        ELSE FitOut(FALSE, FALSE,
                    <<FDiv(FSub(FMul(Sy, Sxx), FMul(Sx, Sxy)), D),
                      FDiv(FSub(FMul(FromInt(n), Sxy), FMul(Sx, Sy)), D)>>)

\* lines 154-155: polyval(x**2, coeffs)
y_func_x(coeffs, x) == FAdd(coeffs[1], FMul(coeffs[2], FMul(x, x)))

\* np.abs(kinks_per_sample - kink_density).argmin(): the first row whose
\* count is nearest to the number kink_density (app.py 574)
argmin_abs(kinks_per_sample, kink_density) ==
    LET dist(r) == Abs(kinks_per_sample[r] * kink_density.den - kink_density.num)
    IN  CHOOSE r \in 1..Len(kinks_per_sample) :
            /\ \A q \in 1..Len(kinks_per_sample) : dist(r) <= dist(q)
            /\ \A q \in 1..(r - 1) : dist(q) > dist(r)

\* display_graphics_spin_ring, lines 573-575: the sample shown
best_sample(sampleset_unembedded, J) ==
    LET stats == kink_stats(sampleset_unembedded, J)
        best_indx == argmin_abs(stats.per_sample, stats.kink_density)
    IN  [best_indx |-> best_indx, sample |-> sampleset_unembedded[best_indx]]

----------------------------------------------------------------------------
(* display_graphics_kink_density: app.py 387-549, with toggle_modal        *)
(* (app.py 793-796).  The stores: coupling_data maps an anneal time to the  *)
(* list of its observations, kz_data is {} (has_k false) or {"k": [...]}.   *)
(* calclambda_ and plot_zne_fitted_line are in helpers not given here: they *)
(* are taken from sections 4.4 and 7 of the specification.                  *)

KZ == 0
KZ_NM == 1
ProblemTypes == {KZ, KZ_NM}

\* Coupling strengths of the slider, in units of 0.1
J_BASELINE == -18
JOptions == {J_BASELINE, J_BASELINE \div 2}

AnnealTimes == {5, 80}
GraphDisplays == {"kink_density", "coupling"}

NoK == [has_k |-> FALSE, k |-> <<>>]
EmptyK == [has_k |-> TRUE, k |-> <<>>]

Obs(lambda, kink_density, J) ==
    [lambda |-> lambda, kink_density |-> kink_density, coupling_strength |-> J]

\* compute_lambda of the specification: deterministic, monotone in J, 1 at
\* the baseline
calclambda_(J, J_baseline) == Frac(J, J_baseline)

\* fit_extrapolation of the specification: fails for fewer than 2 distinct x
fit_extrapolation(observations) ==
    LET xdata == [i \in 1..Len(observations) |-> observations[i].lambda]
        ydata == [i \in 1..Len(observations) |-> observations[i].kink_density]
    IN  IF Cardinality({xdata[i] : i \in 1..Len(xdata)}) < 2
        THEN FitOut(TRUE, FALSE, <<>>)
        ELSE fitted_function(xdata, ydata)

\* accumulate_and_refit of the specification, the refit: the estimate of the
\* anneal time is the fitted value at zero noise; the flag tells a failure
plot_zne_fitted_line(data, estimates, ta_str) ==
    LET fit == fit_extrapolation(IF ta_str \in DOMAIN data THEN data[ta_str] ELSE <<>>)
    IN  IF fit.raised
        THEN [zne_estimates |-> estimates, modal_trigger |-> TRUE]
        ELSE [zne_estimates |->
                  [t \in DOMAIN estimates \cup {ta_str} |->
                      IF t = ta_str THEN y_func_x(fit.coeffs, FromInt(0))
                      ELSE estimates[t]],
              modal_trigger |-> FALSE]

\* What the callback returns; raised and prevented calls write nothing.
DisplayOut(raised, prevented, data, estimates, trigger, kz, ret) ==
    [raised |-> raised, prevented |-> prevented, coupling_data |-> data,
     zne_estimates |-> estimates, modal_trigger |-> trigger, kz_data |-> kz,
     ret |-> ret]

\* A variant that puts the new observation in front of its bucket.
append_observation_front(data, ta_str, obs) ==
    [t \in DOMAIN data \cup {ta_str} |->
        IF t = ta_str
        THEN <<obs>> \o (IF t \in DOMAIN data THEN data[t] ELSE <<>>)
        ELSE data[t]]

\* lines 465-476: the observation joins the bucket of its anneal time
append_observation(data, ta_str, obs) ==
    [t \in DOMAIN data \cup {ta_str} |->
        IF t = ta_str
        THEN Append(IF t \in DOMAIN data THEN data[t] ELSE <<>>, obs)
        ELSE data[t]]

\* lines 409-504: the noise-mitigation tab
display_nm(triggered_id, display, J, state, ta, n, cached, data, estimates, kz, kink_density) ==
    IF triggered_id \in {"qpu_selection", "spins"}
    THEN DisplayOut(FALSE, FALSE, <<>>, <<>>, FALSE, kz, "wiped")
    ELSE IF triggered_id \in {"zne_graph_display", "coupling_strength",
                              "quench_schedule_filename"}
    THEN LET fitted == plot_zne_fitted_line(data, estimates, ta)
         IN  DisplayOut(FALSE, FALSE, data,
                        IF display = "coupling" THEN fitted.zne_estimates
                        ELSE estimates,
                        FALSE, kz,
                        IF display = "coupling" THEN "refit" ELSE "shown")
    ELSE IF triggered_id = "job_submit_state"
    THEN IF state # "COMPLETED"
         THEN DisplayOut(FALSE, TRUE, data, estimates, FALSE, kz, "prevented")
         ELSE IF n \notin DOMAIN cached
         THEN DisplayOut(TRUE, FALSE, data, estimates, FALSE, kz, "KeyError")
         ELSE LET lambda_ == calclambda_(J, J_BASELINE)
                  appended == append_observation(data, ta,
                                                 Obs(lambda_, kink_density, J))
                  fitted == plot_zne_fitted_line(appended, estimates, ta)
              IN  DisplayOut(FALSE, FALSE, appended, fitted.zne_estimates,
                             fitted.modal_trigger, kz, "appended")
    ELSE DisplayOut(FALSE, FALSE, data, estimates, FALSE, kz, "shown")

\* lines 506-549: the Kibble-Zurek tab
display_kz(triggered_id, J, state, ta, n, cached, data, estimates, kz, kink_density) ==
    IF triggered_id \in {"qpu_selection", "spins", "coupling_strength"}
    THEN DisplayOut(FALSE, FALSE, data, estimates, FALSE, EmptyK, "wiped")
    ELSE IF triggered_id = "job_submit_state"
    THEN IF state # "COMPLETED"
         THEN DisplayOut(FALSE, TRUE, data, estimates, FALSE, kz, "prevented")
         ELSE IF n \notin DOMAIN cached
         THEN DisplayOut(TRUE, FALSE, data, estimates, FALSE, kz, "KeyError")
         ELSE IF ~kz.has_k
         THEN DisplayOut(TRUE, FALSE, data, estimates, FALSE, kz, "KeyError")
         ELSE DisplayOut(FALSE, FALSE, data, estimates, FALSE,
                         [kz EXCEPT !.k = Append(@, <<kink_density, ta>>)],
                         "appended")
    ELSE DisplayOut(FALSE, FALSE, data, estimates, FALSE, kz, "shown")

\* lines 387-549
display_graphics_kink_density(triggered_id, display, J, state, ta, n, problem_type, cached, data, estimates, kz, kink_density) ==
    IF problem_type = KZ_NM
    THEN display_nm(triggered_id, display, J, state, ta, n, cached, data,
                    estimates, kz, kink_density)
    ELSE display_kz(triggered_id, J, state, ta, n, cached, data, estimates, kz,
                    kink_density)

\* toggle_modal: lines 793-796
toggle_modal(trigger, is_open) == IF trigger THEN TRUE ELSE is_open

----------------------------------------------------------------------------
(* The state machine *)

NoSearch == [raised |-> FALSE, map |-> <<>>]
NoInput == [sub |-> NoSearch, status |-> "None"]
Step(op, ret, q, s, in) == [op |-> op, ret |-> ret, q |-> q, s |-> s, in |-> in]

\* The stores of app.layout (lines 126-131) and the settings of the page
\* after its initial callbacks: the Kibble-Zurek tab is selected.
GraphInit ==
    /\ selected_problem = KZ
    /\ graph_display = "kink_density"
    /\ slider_J = J_BASELINE
    /\ anneal_duration = 5
    /\ coupling_data = <<>>
    /\ zne_estimates = <<>>
    /\ modal_trigger = FALSE
    /\ error_modal_is_open = FALSE
    /\ kz_data = NoK
    /\ nedits = 0

AppInit ==
    /\ GraphInit
    /\ solvers \in SolverSets
    /\ useClassical \in BOOLEAN
    /\ wall = 0
    /\ elapsed = 0
    /\ adjusts = 0
    /\ btn_simulate_disabled = FALSE
    /\ wd_job_disabled = TRUE
    /\ wd_job_interval = IntervalError
    /\ job_submit_state = init_job_status
    /\ job_submit_time = NoTime
    /\ embeddings_found = NoPayload
    /\ embeddings_cached = <<>>
    /\ embedding_is_cached = {}
    /\ spins \in SpinOptions
    /\ qpu_name = NoQpu
    /\ controls_disabled = FALSE
    /\ job_id = NoJob
    /\ jobs = <<>>
    /\ initial_warning = FALSE
    /\ warning_modal_is_open = FALSE
    /\ solver_modal_is_open = alert_no_solver("none")
    /\ pend_submit = FALSE
    /\ pend_cache = FALSE
    /\ nclicks = 0
    /\ nsub = 0
    /\ last = Step("init", "none", 0, 0, NoInput)

Init ==
    /\ AppInit
    /\ args = NoCall
    /\ result = NoResult

\* The outputs of simulate written to the page; writing job_submit_state runs
\* disable_buttons, writing job_submit_time makes submit_job due, writing
\* embeddings_found makes cache_embeddings due, and the timer is re-armed.
Apply(out) ==
    /\ btn_simulate_disabled' = out.btn
    /\ wd_job_disabled' = out.wd
    /\ wd_job_interval' = out.interval
    /\ elapsed' = 0
    /\ job_submit_state' = IF out.state = NoUpdateS THEN job_submit_state ELSE out.state
    /\ controls_disabled' = IF out.state = NoUpdateS THEN controls_disabled
                            ELSE disable_buttons(out.state, controls_disabled)
    /\ job_submit_time' = IF out.time = NoUpdateT THEN job_submit_time ELSE out.time
    /\ pend_submit' = (pend_submit \/ out.time # NoUpdateT)
    /\ nsub' = IF out.time = NoUpdateT THEN nsub ELSE nsub + 1
    /\ embeddings_found' = IF out.emb = NoUpdateE THEN embeddings_found ELSE out.emb
    /\ pend_cache' = (pend_cache \/ out.emb # NoUpdateE)

\* The user presses Simulate: simulate and alert_no_solver run.
Click ==
    /\ ~btn_simulate_disabled
    /\ nclicks < MaxClicks
    /\ Apply(simulate_click(embedding_is_cached, spins, qpu_name, wall))
    /\ solver_modal_is_open' = alert_no_solver("btn_simulate")
    /\ nclicks' = nclicks + 1
    /\ last' = Step("click", "click", 0, 0, NoInput)
    /\ UNCHANGED <<args, result, graphvars, solvers, useClassical, wall, adjusts, embeddings_cached,
                   embedding_is_cached, spins, qpu_name, job_id, jobs,
                   initial_warning, warning_modal_is_open>>

\* The maps of the ring onto one cycle of qubits differ by a rotation or a
\* reflection of the ring; the model follows one map per cycle.
Canonical(m) ==
    \/ m = <<>>
    \/ /\ \A i \in 1..Len(m) : m[1] <= m[i]
       /\ m[2] < m[Len(m)]

\* What the try block of lines 726-738 can see: KeyError from
\* qpus[qpu_name], or the map returned by find_subgraph.
SearchResults ==
    IF qpu_name \notin Qpus
    THEN {[raised |-> TRUE, map |-> <<>>]}
    ELSE {[raised |-> FALSE, map |-> m] :
             m \in {x \in find_subgraph(spins, ring_edges_of(spins), Edges(qpu_name)) :
                       Canonical(x)}}

\* The timer wd_job fires: simulate runs.  A call that raises writes nothing.
TickInputs ==
    IF job_submit_state = "EMBEDDING" /\ embeddings_found = Needed
    THEN {[sub |-> sub, status |-> "None"] : sub \in SearchResults}
    ELSE IF job_submit_state \in PollStates
    THEN {[sub |-> NoSearch, status |-> status] :
             status \in get_job_status(client, job_id, job_submit_time)}
    ELSE {NoInput}

Tick ==
    /\ ~wd_job_disabled
    /\ elapsed >= wd_job_interval \div TickUnit
    /\ \E in \in TickInputs :
          IF job_submit_state \in PollStates /\ in.status = "raise"
          THEN /\ elapsed' = 0
               /\ last' = Step("tick", "raise", 1, 0, in)
               /\ UNCHANGED <<btn_simulate_disabled, wd_job_disabled, wd_job_interval,
                              job_submit_state, controls_disabled, job_submit_time,
                              pend_submit, nsub, embeddings_found, pend_cache>>
          ELSE LET out == simulate_tick(job_submit_state, embeddings_found, spins,
                                        in.sub, in.status, wall)
               IN  /\ Apply(out)
                   /\ last' = Step("tick", out.ret, out.q, out.s, in)
    /\ UNCHANGED <<args, result, graphvars, solvers, useClassical, wall, adjusts, embeddings_cached,
                   embedding_is_cached, spins, qpu_name, job_id, jobs,
                   initial_warning, warning_modal_is_open, solver_modal_is_open,
                   nclicks>>

\* submit_job runs once job_submit_time has been written.  A failing call
\* writes nothing.
SubmitJob ==
    /\ pend_submit
    /\ pend_submit' = FALSE
    /\ LET r == submit_job(qpu_name, spins, embeddings_cached)
       IN  /\ last' = Step("submit_job", r, 0, 0, NoInput)
           /\ IF r = "SampleSet"
              THEN /\ job_id' = SampleSetId
                   /\ initial_warning' = TRUE
                   /\ warning_modal_is_open' = ~initial_warning
                   /\ UNCHANGED jobs
              ELSE IF r = "problem"
              THEN /\ jobs' = Append(jobs, [label |-> job_submit_time,
                                            status |-> "PENDING", sub |-> nsub])
                   /\ job_id' = Len(jobs) + 1
                   /\ initial_warning' = FALSE
                   /\ warning_modal_is_open' = FALSE
              ELSE UNCHANGED <<job_id, jobs, initial_warning, warning_modal_is_open>>
    /\ UNCHANGED <<args, result, graphvars, solvers, useClassical, wall, elapsed, adjusts, btn_simulate_disabled,
                   wd_job_disabled, wd_job_interval, job_submit_state, job_submit_time,
                   embeddings_found, embeddings_cached, embedding_is_cached, spins,
                   qpu_name, controls_disabled, solver_modal_is_open, pend_cache,
                   nclicks, nsub>>

\* What a cache_embeddings call writes.
ApplyCache(c) ==
    IF c.raised \/ c.prevented
    THEN UNCHANGED <<embeddings_cached, embedding_is_cached>>
    ELSE /\ embeddings_cached' = c.cached
         /\ embedding_is_cached' = c.lengths

\* cache_embeddings runs once embeddings_found has been written.
CacheEmbeddings ==
    /\ pend_cache
    /\ pend_cache' = FALSE
    /\ LET c == cache_embeddings_found(embeddings_found, embeddings_cached)
       IN  /\ ApplyCache(c)
           /\ last' = Step("cache_embeddings",
                           IF c.prevented THEN "prevented" ELSE "merged", 0, 0, NoInput)
    /\ UNCHANGED <<args, result, graphvars, solvers, useClassical, wall, elapsed, adjusts, btn_simulate_disabled,
                   wd_job_disabled, wd_job_interval, job_submit_state, job_submit_time,
                   embeddings_found, spins, qpu_name, controls_disabled, job_id, jobs,
                   initial_warning, warning_modal_is_open, solver_modal_is_open,
                   pend_submit, nclicks, nsub>>

\* The user selects a sampler: cache_embeddings runs for qpu_selection.
SelectQpu ==
    /\ ~controls_disabled
    /\ \E q \in Qpus \ {qpu_name} :
          /\ qpu_name' = q
          /\ LET c == cache_embeddings_qpu(q)
             IN  /\ ApplyCache(c)
                 /\ last' = Step("select", IF c.raised THEN "raised" ELSE "loaded", 0, 0, NoInput)
    /\ UNCHANGED <<args, result, graphvars, solvers, useClassical, wall, elapsed, adjusts, btn_simulate_disabled,
                   wd_job_disabled, wd_job_interval, job_submit_state, job_submit_time,
                   embeddings_found, spins, controls_disabled, job_id, jobs,
                   initial_warning, warning_modal_is_open, solver_modal_is_open,
                   pend_submit, pend_cache, nclicks, nsub>>

\* The user selects a ring size.
ChangeSpins ==
    /\ ~controls_disabled
    /\ \E n \in SpinOptions \ {spins} : spins' = n
    /\ last' = Step("spins", "none", 0, 0, NoInput)
    /\ UNCHANGED <<args, result, graphvars, solvers, useClassical, wall, elapsed, adjusts, btn_simulate_disabled,
                   wd_job_disabled, wd_job_interval, job_submit_state, job_submit_time,
                   embeddings_found, embeddings_cached, embedding_is_cached, qpu_name,
                   controls_disabled, job_id, jobs, initial_warning,
                   warning_modal_is_open, solver_modal_is_open, pend_submit, pend_cache,
                   nclicks, nsub>>

\* The remote sampler works on a problem.
NextStatus(status) ==
    IF status = "PENDING" THEN {"IN_PROGRESS", "CANCELLED"}
    ELSE IF status = "IN_PROGRESS" THEN {"COMPLETED", "FAILED"}
    ELSE {}

JobProgress ==
    /\ \E k \in 1..Len(jobs) : \E st \in NextStatus(jobs[k].status) :
          jobs' = [jobs EXCEPT ![k].status = st]
    /\ last' = Step("env", "none", 0, 0, NoInput)
    /\ UNCHANGED <<args, result, graphvars, solvers, useClassical, wall, elapsed, adjusts, btn_simulate_disabled,
                   wd_job_disabled, wd_job_interval, job_submit_state, job_submit_time,
                   embeddings_found, embeddings_cached, embedding_is_cached, spins,
                   qpu_name, controls_disabled, job_id, initial_warning,
                   warning_modal_is_open, solver_modal_is_open, pend_submit, pend_cache,
                   nclicks, nsub>>

\* Time passes.
Advance ==
    /\ wall < MaxWall
    /\ wall' = wall + 1
    /\ elapsed' = Min(elapsed + 1, IntervalSlow \div TickUnit)
    /\ last' = Step("env", "none", 0, 0, NoInput)
    /\ UNCHANGED <<args, result, graphvars, solvers, useClassical, adjusts, btn_simulate_disabled,
                   wd_job_disabled, wd_job_interval, job_submit_state, job_submit_time,
                   embeddings_found, embeddings_cached, embedding_is_cached, spins,
                   qpu_name, controls_disabled, job_id, jobs, initial_warning,
                   warning_modal_is_open, solver_modal_is_open, pend_submit, pend_cache,
                   nclicks, nsub>>

\* datetime.now() is naive local time: the wall clock can be set back (end of
\* daylight saving time, a clock correction), here by one second.
ClockAdjust ==
    /\ adjusts < MaxAdjusts
    /\ wall >= 1000 \div TickUnit
    /\ wall' = wall - 1000 \div TickUnit
    /\ adjusts' = adjusts + 1
    /\ last' = Step("env", "none", 0, 0, NoInput)
    /\ UNCHANGED <<args, result, graphvars, solvers, useClassical, elapsed, btn_simulate_disabled,
                   wd_job_disabled, wd_job_interval, job_submit_state, job_submit_time,
                   embeddings_found, embeddings_cached, embedding_is_cached, spins,
                   qpu_name, controls_disabled, job_id, jobs, initial_warning,
                   warning_modal_is_open, solver_modal_is_open, pend_submit, pend_cache,
                   nclicks, nsub>>

Next ==
    \/ Click
    \/ Tick
    \/ SubmitJob
    \/ CacheEmbeddings
    \/ SelectQpu
    \/ ChangeSpins
    \/ JobProgress
    \/ Advance

Spec == Init /\ [][Next]_vars

\* The same with a wall clock that can be set back.
NextClock ==
    \/ Next
    \/ ClockAdjust

SpecClock == Init /\ [][NextClock]_vars

\* The timer wd_job keeps running after the last clock reading the model
\* tells apart: the time since it was re-armed still grows.
Elapse ==
    /\ wall = MaxWall
    /\ elapsed' = Min(elapsed + 1, IntervalSlow \div TickUnit)
    /\ last' = Step("env", "none", 0, 0, NoInput)
    /\ UNCHANGED <<args, result, graphvars, solvers, useClassical, wall, adjusts, btn_simulate_disabled,
                   wd_job_disabled, wd_job_interval, job_submit_state, job_submit_time,
                   embeddings_found, embeddings_cached, embedding_is_cached, spins,
                   qpu_name, controls_disabled, job_id, jobs, initial_warning,
                   warning_modal_is_open, solver_modal_is_open, pend_submit, pend_cache,
                   nclicks, nsub>>

NextLive ==
    \/ Next
    \/ Elapse

\* Scheduling: time passes, an enabled timer fires once its interval has
\* elapsed, Dash runs every callback whose Input was written, and the remote
\* sampler brings every problem it accepted to a terminal status.
Fairness ==
    /\ WF_vars(Advance \/ Elapse)
    /\ WF_vars(Tick)
    /\ WF_vars(SubmitJob)
    /\ WF_vars(CacheEmbeddings)
    /\ WF_vars(JobProgress)

SpecLive == Init /\ [][NextLive]_vars /\ Fairness

\* simulate called as a function of the page, as test_simulate_states does:
\* a timer tick finds a state name outside the seven known ones in
\* job_submit_state.  The page has been open for a while (the clock is not at
\* its origin).
StateNames == RunningStates \cup DoneStates \cup {"READY", "NO SOLVER", "ERROR"}

InitCall ==
    /\ GraphInit
    /\ solvers = {Qpu64}
    /\ useClassical = TRUE
    /\ wall = MaxWall - 3
    /\ elapsed = 0
    /\ adjusts = 0
    /\ btn_simulate_disabled = FALSE
    /\ wd_job_disabled = FALSE
    /\ wd_job_interval = IntervalError
    /\ job_submit_state \in StateNames \ (RunningStates \cup DoneStates)
    /\ job_submit_time = NoTime
    /\ embeddings_found = NoPayload
    /\ embeddings_cached = <<>>
    /\ embedding_is_cached = {}
    /\ spins = 4
    /\ qpu_name = NoQpu
    /\ controls_disabled = FALSE
    /\ job_id = NoJob
    /\ jobs = <<>>
    /\ initial_warning = FALSE
    /\ warning_modal_is_open = FALSE
    /\ solver_modal_is_open = alert_no_solver("none")
    /\ pend_submit = FALSE
    /\ pend_cache = FALSE
    /\ nclicks = 0
    /\ nsub = 0
    /\ last = Step("init", "none", 0, 0, NoInput)
    /\ args = NoCall
    /\ result = NoResult

SpecCall == InitCall /\ [][Next]_vars

----------------------------------------------------------------------------
(* The job lifecycle together with display_graphics_kink_density.  Dash     *)
(* calls the callback as soon as one of its Inputs is written, with the     *)
(* values the page holds at that moment: the call is the step that follows  *)
(* the one that wrote the Input.                                            *)

\* ctx.triggered_id of the call of display_graphics_kink_density that the
\* last step caused; "none" when it wrote none of the Inputs.
TriggeredId ==
    IF last.op = "click" THEN "job_submit_state"
    ELSE IF last.op = "tick" /\ last.ret \notin {"done", "raise"} THEN "job_submit_state"
    ELSE IF last.op = "submit_job" /\ last.ret \in {"SampleSet", "problem"} THEN "job_id"
    ELSE IF last.op = "select" THEN "qpu_selection"
    ELSE IF last.op \in {"spins", "coupling_strength", "anneal_duration",
                         "graph_display", "selected-problem"} THEN last.op
    ELSE "none"

DisplayDue == TriggeredId # "none"

\* The mean kink densities kink_stats can return for the samples of one read
\* of a ring of n spins (get_samples, app.py 452-455 and 527-530).
KinkDensities(n, J) ==
    {Frac(d.num, d.den) :
        d \in {kink_stats(<<row>>, J).kink_density : row \in [1..n -> Spin]}}

DisplayKinkDensity ==
    /\ DisplayDue
    /\ \E kink_density \in KinkDensities(spins, slider_J) :
          LET d == display_graphics_kink_density(
                       TriggeredId, graph_display, slider_J, job_submit_state,
                       anneal_duration, spins, selected_problem, embeddings_cached,
                       coupling_data, zne_estimates, kz_data, kink_density)
          IN  /\ IF d.raised \/ d.prevented
                 THEN UNCHANGED <<coupling_data, zne_estimates, modal_trigger,
                                  error_modal_is_open, kz_data>>
                 ELSE /\ coupling_data' = d.coupling_data
                      /\ zne_estimates' = d.zne_estimates
                      /\ modal_trigger' = d.modal_trigger
                      /\ error_modal_is_open' =
                             toggle_modal(d.modal_trigger, error_modal_is_open)
                      /\ kz_data' = d.kz_data
              /\ last' = Step("display", d.ret, 0, 0, NoInput)
    /\ UNCHANGED <<args, result, selected_problem, graph_display, slider_J,
                   anneal_duration, nedits, solvers, useClassical, wall, elapsed, adjusts,
                   btn_simulate_disabled, wd_job_disabled, wd_job_interval,
                   job_submit_state, job_submit_time, embeddings_found,
                   embeddings_cached, embedding_is_cached, spins, qpu_name,
                   controls_disabled, job_id, jobs, initial_warning,
                   warning_modal_is_open, solver_modal_is_open, pend_submit,
                   pend_cache, nclicks, nsub>>

\* What a change of a setting of the page leaves alone.
jobvars == <<solvers, useClassical, wall, elapsed, adjusts, btn_simulate_disabled,
             wd_job_disabled, wd_job_interval, job_submit_state, job_submit_time,
             embeddings_found, embeddings_cached, embedding_is_cached, spins, qpu_name,
             controls_disabled, job_id, jobs, initial_warning, warning_modal_is_open,
             solver_modal_is_open, pend_submit, pend_cache, nclicks, nsub>>

\* The user moves the coupling-strength slider (disabled while a job runs).
ChangeCoupling ==
    /\ nedits + nclicks < MaxEdits
    /\ nedits' = nedits + 1
    /\ ~controls_disabled
    /\ \E J \in JOptions \ {slider_J} : slider_J' = J
    /\ last' = Step("coupling_strength", "none", 0, 0, NoInput)
    /\ UNCHANGED <<args, result, jobvars, selected_problem, graph_display,
                   anneal_duration, coupling_data, zne_estimates, modal_trigger,
                   error_modal_is_open, kz_data>>

\* The user selects an anneal duration (disabled while a job runs).
ChangeAnneal ==
    /\ nedits + nclicks < MaxEdits
    /\ nedits' = nedits + 1
    /\ ~controls_disabled
    /\ \E ta \in AnnealTimes \ {anneal_duration} : anneal_duration' = ta
    /\ last' = Step("anneal_duration", "none", 0, 0, NoInput)
    /\ UNCHANGED <<args, result, jobvars, selected_problem, graph_display,
                   slider_J, coupling_data, zne_estimates, modal_trigger,
                   error_modal_is_open, kz_data>>

\* The user selects another graph.
ChangeGraphDisplay ==
    /\ nedits + nclicks < MaxEdits
    /\ nedits' = nedits + 1
    /\ \E display \in GraphDisplays \ {graph_display} : graph_display' = display
    /\ last' = Step("graph_display", "none", 0, 0, NoInput)
    /\ UNCHANGED <<args, result, jobvars, selected_problem, slider_J,
                   anneal_duration, coupling_data, zne_estimates, modal_trigger,
                   error_modal_is_open, kz_data>>

\* The user selects the other tab: update_selected_problem_type, app.py
\* 211-250 (a click on the tab that is selected raises PreventUpdate).
SelectProblem ==
    /\ nedits + nclicks < MaxEdits
    /\ nedits' = nedits + 1
    /\ \E new_problem_type \in ProblemTypes \ {selected_problem} :
          selected_problem' = new_problem_type
    /\ last' = Step("selected-problem", "none", 0, 0, NoInput)
    /\ UNCHANGED <<args, result, jobvars, graph_display, slider_J,
                   anneal_duration, coupling_data, zne_estimates, modal_trigger,
                   error_modal_is_open, kz_data>>

\* The page with its graphs.  A display call that is due runs before anything
\* else; the user changes a setting between jobs (the interval timer is off),
\* clicks and changes together stay within MaxEdits, and time is followed only
\* while the timer runs.
NextGraph ==
    \/ DisplayKinkDensity
    \/ ~DisplayDue /\ nedits + nclicks < MaxEdits /\ Click
    \/ ~DisplayDue /\ Tick
    \/ ~DisplayDue /\ SubmitJob
    \/ ~DisplayDue /\ CacheEmbeddings
    \/ ~DisplayDue /\ SelectQpu
    \/ ~DisplayDue /\ ChangeSpins
    \/ ~DisplayDue /\ JobProgress
    \/ ~DisplayDue /\ ~wd_job_disabled /\ Advance
    \/ ~DisplayDue /\ wd_job_disabled /\ ChangeCoupling
    \/ ~DisplayDue /\ wd_job_disabled /\ ChangeAnneal
    \/ ~DisplayDue /\ wd_job_disabled /\ ChangeGraphDisplay
    \/ ~DisplayDue /\ wd_job_disabled /\ SelectProblem

\* A page with one QPU and the classical sampler, open for a while (the
\* clock is not at its origin).
InitGraph ==
    /\ GraphInit
    /\ solvers = {Qpu64}
    /\ useClassical = TRUE
    /\ wall = MaxWall - 4
    /\ elapsed = 0
    /\ adjusts = 0
    /\ btn_simulate_disabled = FALSE
    /\ wd_job_disabled = TRUE
    /\ wd_job_interval = IntervalError
    /\ job_submit_state = init_job_status
    /\ job_submit_time = NoTime
    /\ embeddings_found = NoPayload
    /\ embeddings_cached = <<>>
    /\ embedding_is_cached = {}
    /\ spins = 3
    /\ qpu_name = NoQpu
    /\ controls_disabled = FALSE
    /\ job_id = NoJob
    /\ jobs = <<>>
    /\ initial_warning = FALSE
    /\ warning_modal_is_open = FALSE
    /\ solver_modal_is_open = alert_no_solver("none")
    /\ pend_submit = FALSE
    /\ pend_cache = FALSE
    /\ nclicks = 0
    /\ nsub = 0
    /\ last = Step("init", "none", 0, 0, NoInput)
    /\ args = NoCall
    /\ result = NoResult

SpecGraph == InitGraph /\ [][NextGraph]_vars

----------------------------------------------------------------------------
(* The helpers called on their own: the arguments are drawn from bounded   *)
(* sets, one step applies the helper.                                      *)

\* Coupling strengths: ferromagnetic, none, antiferromagnetic.
CouplingStrengths == {-1, 0, 1}

SampleSets ==
    UNION {[1..rows -> [1..n -> Spin]] : rows \in 1..MaxRows, n \in 1..MaxRing}

\* One-to-one embeddings of a ring of n spins that put spin 0 on qubit 0.
EmbChoices(n) ==
    {[k \in 1..n |-> <<m[k]>>] :
        m \in {x \in [1..n -> Qubits] :
                  x[1] = 0 /\ \A i, j \in 1..n : (i # j) => (x[i] # x[j])}}

Caches ==
    UNION {{c \in [keys -> UNION {EmbChoices(n) : n \in keys}] :
               \A n \in keys : c[n] \in EmbChoices(n)} : keys \in SUBSET SpinOptions}

FoundPayloads ==
    {Needed, NotFound} \cup
    UNION {{Payload("found", n, e) : e \in EmbChoices(n)} : n \in SpinOptions}

\* The lambdas and the kink densities the page can put into a bucket.
FitXs == {calclambda_(J, J_BASELINE) : J \in JOptions}
FitYs == UNION {KinkDensities(n, J_BASELINE) : n \in SpinOptions}

FitCall(xdata, ydata) == [fn |-> "fitted_function", xdata |-> xdata, ydata |-> ydata]

\* Buckets of up to MaxRows observations, as the arrays of their x and y.
FitInputs ==
    UNION {{FitCall(xdata, ydata) : xdata \in [1..k -> FitXs], ydata \in [1..k -> FitYs]} :
              k \in 0..MaxRows}

SearchCall(n, sampler_edgelist) ==
    [fn |-> "find_one_to_one_embedding", spins |-> n,
     sampler_edgelist |-> sampler_edgelist]

\* Device graphs: the two QPUs and the Pegasus one with couplers missing.
SearchInputs ==
    {SearchCall(n, sampler_edgelist) :
        n \in SpinOptions, sampler_edgelist \in SUBSET QpuEdges \cup {Qpu2Edges}}

BestCall(sampleset, J) == [fn |-> "best_sample", sampleset |-> sampleset, J |-> J]

\* Reads of one more row than MaxRows (with two rows both are as near to
\* their mean), of rings of MaxRing spins, each row turned so that spin 0 is up.
BestInputs ==
    {BestCall(sampleset, J) :
        sampleset \in [1..(MaxRows + 1) -> {row \in [1..MaxRing -> Spin] : row[1] = 1}],
        J \in CouplingStrengths}

PairCall(sampleset, J_ferro, J_anti) ==
    [fn |-> "kink_stats_pair", sampleset |-> sampleset, J_ferro |-> J_ferro,
     J_anti |-> J_anti]

\* One sample set read with a ferromagnetic and with another coupling.
PairInputs ==
    {PairCall(sampleset, J_ferro, J_anti) :
        sampleset \in SampleSets,
        J_ferro \in {J \in CouplingStrengths : J < 0},
        J_anti \in {J \in CouplingStrengths : J >= 0}}

CalcInputs ==
    {Call("kink_stats", sampleset, J, 0, <<>>, NoPayload, {}) :
        sampleset \in SampleSets, J \in CouplingStrengths}
    \cup PairInputs
    \cup BestInputs
    \cup FitInputs
    \cup SearchInputs
    \cup {Call("create_bqm", <<>>, J, num_spins, <<>>, NoPayload, {}) :
             J \in CouplingStrengths, num_spins \in 1..MaxRing}
    \cup {Call("validate_and_prune", <<>>, 0, 0, cached, NoPayload, target_graph) :
             cached \in Caches, target_graph \in {QpuEdges, Qpu2Edges}}
    \cup {Call("cache_embeddings", <<>>, 0, 0, cached, found, {}) :
             cached \in Caches, found \in FoundPayloads}

InitCalc ==
    /\ AppInit
    /\ solvers = {Qpu64}
    /\ useClassical
    /\ spins = 3
    /\ args \in CalcInputs
    /\ result = NoResult

KinkStats ==
    /\ args.fn = "kink_stats"
    /\ ~result.done
    /\ result' = Returned(kink_stats(args.sampleset, args.J))
    /\ UNCHANGED <<appvars, args>>

CreateBqm ==
    /\ args.fn = "create_bqm"
    /\ ~result.done
    /\ result' = Returned(create_bqm(args.num_spins, args.J))
    /\ UNCHANGED <<appvars, args>>

ValidateAndPrune ==
    /\ args.fn = "validate_and_prune"
    /\ ~result.done
    /\ result' = Returned(validate_and_prune(args.cached, args.target_graph))
    /\ UNCHANGED <<appvars, args>>

MergeDiscovered ==
    /\ args.fn = "cache_embeddings"
    /\ ~result.done
    /\ result' = Returned(cache_embeddings_found(args.found, args.cached))
    /\ UNCHANGED <<appvars, args>>

FittedFunction ==
    /\ args.fn = "fitted_function"
    /\ ~result.done
    /\ result' = Returned(fitted_function(args.xdata, args.ydata))
    /\ UNCHANGED <<appvars, args>>

\* qa.py 53-68: the search returns one of the maps it can find, or nothing
FindOneToOneEmbedding ==
    /\ args.fn = "find_one_to_one_embedding"
    /\ ~result.done
    /\ \E emb_1to1 \in find_subgraph(args.spins, ring_edges_of(args.spins),
                                       args.sampler_edgelist) :
          result' = Returned(find_one_to_one_embedding(emb_1to1))
    /\ UNCHANGED <<appvars, args>>

BestSample ==
    /\ args.fn = "best_sample"
    /\ ~result.done
    /\ result' = Returned(best_sample(args.sampleset, args.J))
    /\ UNCHANGED <<appvars, args>>

\* kink_stats called twice on one sample set
KinkStatsPair ==
    /\ args.fn = "kink_stats_pair"
    /\ ~result.done
    /\ result' = Returned([ferro |-> kink_stats(args.sampleset, args.J_ferro),
                           anti |-> kink_stats(args.sampleset, args.J_anti)])
    /\ UNCHANGED <<appvars, args>>

NextCalc ==
    \/ KinkStatsPair
    \/ BestSample
    \/ FittedFunction
    \/ FindOneToOneEmbedding
    \/ KinkStats
    \/ CreateBqm
    \/ ValidateAndPrune
    \/ MergeDiscovered

SpecCalc == InitCalc /\ [][NextCalc]_vars

----------------------------------------------------------------------------
(* Properties *)

IsClick == last'.op = "click"
IsTick == last'.op = "tick"

\* The embedding search of this tick returned a non-empty embedding.
SearchFound == ~last'.in.sub.raised /\ last'.in.sub.map # <<>>

\* A tick in EMBEDDING that has to search.
SearchTick == IsTick /\ job_submit_state = "EMBEDDING" /\ embeddings_found = Needed

C1_Step ==
    (IsClick /\ qpu_name # Classical) =>
        /\ btn_simulate_disabled'
        /\ ~wd_job_disabled'
        /\ IF spins \in embedding_is_cached
           THEN /\ job_submit_state' = "SUBMITTED"
                /\ job_submit_time' = Strftime(wall)
                /\ nsub' = nsub + 1
                /\ pend_submit'
                /\ embeddings_found' = embeddings_found
           ELSE /\ job_submit_state' = "EMBEDDING"
                /\ embeddings_found' = Needed
                /\ job_submit_time' = job_submit_time
                /\ nsub' = nsub

\* C1: a submit request with a QPU target and the ring size among the cached
\* sizes gives SUBMITTED with a newly recorded submission timestamp and leaves
\* the embedding payload alone; with the ring size absent it gives EMBEDDING,
\* payload "needed", and leaves the timestamp alone.  Either way the submit
\* control is disabled and the polling timer enabled.
C1_SubmitRequest == [][C1_Step]_vars

C1_Witness ==
    /\ last.op = "click"
    /\ qpu_name = Qpu64
    /\ spins \in embedding_is_cached
    /\ job_submit_state = "SUBMITTED"
    /\ job_submit_time = Strftime(wall)
    /\ nsub = 1

C2_Found ==
    (SearchTick /\ SearchFound) =>
        /\ job_submit_state' = "EMBEDDING"
        /\ embeddings_found' =
              Payload("found", spins, [k \in 1..spins |-> <<last'.in.sub.map[k]>>])
        /\ job_submit_time' = job_submit_time
        /\ nsub' = nsub

C2_NextTick ==
    (IsTick /\ job_submit_state = "EMBEDDING" /\ embeddings_found # Needed) =>
        /\ job_submit_state' = "SUBMITTED"
        /\ job_submit_time' = Strftime(wall)
        /\ nsub' = nsub + 1
        /\ pend_submit'

C2_Payload ==
    (job_submit_state' = "EMBEDDING") => (embeddings_found'.kind \in {"needed", "found"})

\* C2: a tick in EMBEDDING with payload "needed" whose search returns a
\* non-empty embedding keeps EMBEDDING, sets the payload to {ring size:
\* embedding} and leaves the timestamp alone; a tick in EMBEDDING with any
\* other payload (the next tick) gives SUBMITTED with a fresh timestamp, and
\* EMBEDDING holds no payload other than "needed" or a found embedding.
C2_EmbeddingOneTick == [][C2_Found /\ C2_NextTick /\ C2_Payload]_vars

C2_Witness ==
    /\ last.op = "tick"
    /\ last.ret = "cached"
    /\ job_submit_state = "SUBMITTED"
    /\ embeddings_found.kind = "found"
    /\ job_submit_time = Strftime(wall)

C3_Step ==
    (SearchTick /\ ~SearchFound) =>
        /\ job_submit_state' = "FAILED"
        /\ embeddings_found' = NotFound
        /\ pend_cache'
        /\ last'.ret # "raise"

\* C3: a tick in EMBEDDING with payload "needed" whose search raises or
\* returns an empty embedding gives FAILED with payload "not found"; the step
\* completes and writes its outputs.
C3_SearchFailure == [][C3_Step]_vars

C3_Witness ==
    /\ last.op = "tick"
    /\ last.in.sub.raised
    /\ job_submit_state = "FAILED"
    /\ embeddings_found = NotFound

C4_Step ==
    (SearchTick /\ ~last'.in.sub.raised /\ last'.in.sub.map = <<>>) =>
        /\ ~btn_simulate_disabled'
        /\ wd_job_disabled'
        /\ job_submit_state' = "FAILED"
        /\ embeddings_found' = NotFound

\* C4: the step that detects a failed search (EMBEDDING, "needed", the search
\* returns empty) outputs in that same step the submit control enabled and
\* the polling timer disabled, with FAILED and "not found".
C4_FailedSearchOutputs == [][C4_Step]_vars

C5_Step ==
    (IsTick /\ job_submit_state \in PollStates) =>
        /\ last'.q = 1
        /\ job_submit_time' = job_submit_time
        /\ nsub' = nsub
        /\ embeddings_found' = embeddings_found
        /\ (last'.in.status = "None") =>
              (job_submit_state' = "SUBMITTED" /\ wd_job_interval' = 200)
        /\ (last'.in.status \notin {"None", "raise"}) =>
              (job_submit_state' = last'.in.status /\ wd_job_interval' = 1000)

\* C5: a tick in SUBMITTED, PENDING or IN_PROGRESS makes exactly one status
\* query; no matching record gives SUBMITTED with interval 200 ms, a status
\* gives that status with interval 1000 ms; the timestamp and the payload are
\* left alone.
C5_Poll == [][C5_Step]_vars

C5_Witness ==
    /\ last.op = "tick"
    /\ last.in.status = "IN_PROGRESS"
    /\ job_submit_state = "IN_PROGRESS"
    /\ wd_job_interval = 1000

C6_Tick ==
    (IsTick /\ job_submit_state \in DoneStates) =>
        /\ ~btn_simulate_disabled'
        /\ wd_job_disabled'
        /\ job_submit_state' = job_submit_state
        /\ job_submit_time' = job_submit_time
        /\ embeddings_found' = embeddings_found

C6_Leave ==
    (job_submit_state \in DoneStates /\ job_submit_state' # job_submit_state) =>
        (IsClick /\ job_submit_state' \in {"SUBMITTED", "EMBEDDING"})

\* C6: a tick in COMPLETED, CANCELLED or FAILED enables the submit control,
\* disables the timer and leaves state, timestamp and payload alone; a
\* terminal state changes only by a submit request, which gives SUBMITTED or
\* EMBEDDING.
C6_Terminal == [][C6_Tick /\ C6_Leave]_vars

C6_Witness ==
    /\ last.op = "click"
    /\ nclicks = 2
    /\ job_submit_state \in {"SUBMITTED", "EMBEDDING"}
    /\ \E k \in 1..Len(jobs) : jobs[k].status \in DoneStates

C7_Poll ==
    (IsTick /\ job_submit_state = "IN_PROGRESS" /\ last'.in.status = "COMPLETED") =>
        (job_submit_state' = "COMPLETED")

C7_Tick ==
    (IsTick /\ job_submit_state = "COMPLETED") =>
        /\ ~btn_simulate_disabled'
        /\ wd_job_disabled'
        /\ job_submit_state' = "COMPLETED"
        /\ last'.q = 0

\* C7: a poll in IN_PROGRESS that returns COMPLETED gives COMPLETED; the tick
\* that follows in COMPLETED enables the submit control and disables the
\* timer without a status query.
C7_Completed == [][C7_Poll /\ C7_Tick]_vars

C7_Witness ==
    /\ last.op = "tick"
    /\ last.ret = "done"
    /\ job_submit_state = "COMPLETED"
    /\ ~btn_simulate_disabled
    /\ wd_job_disabled
    /\ IsProblemId(job_id)
    /\ jobs[job_id].status = "COMPLETED"

C8_Step ==
    (IsTick /\ job_submit_state \in PollStates
        /\ last'.in.status \notin {"None", "raise"}) =>
        /\ IsProblemId(job_id)
        /\ jobs[job_id].label = job_submit_time
        /\ jobs[job_id].sub = nsub

\* C8: after a new submission supersedes an earlier job no poll adopts a
\* status of the earlier job: a status is accepted only when the label time of
\* the job equals the recorded submission timestamp, and the job polled is
\* then the job of the latest submission.
C8_NoStaleStatus == [][C8_Step]_vars

C9_Click ==
    (IsClick /\ qpu_name = Classical) => (job_submit_state' = "SUBMITTED")

C9_Submit ==
    (last'.op = "submit_job" /\ qpu_name = Classical) =>
        (job_id' = SampleSetId /\ last'.ret = "SampleSet")

\* C9: a submit request for the local classical sampler gives SUBMITTED, and
\* the submission that follows produces a sample set as the job id, whether
\* or not the ring size is in the cache.
C9_ClassicalSubmits == [][C9_Click /\ C9_Submit]_vars

\* C10: with no sampler accessible at start-up the initial job state is
\* "NO SOLVER" and every submit request opens the solver modal.
C10_NoSolver ==
    (Qpus = {}) =>
        /\ init_job_status = "NO SOLVER"
        /\ (last.op = "click") => solver_modal_is_open

C11_Tick ==
    (IsTick /\ job_submit_state \notin RunningStates \cup DoneStates) =>
        /\ job_submit_state' = "ERROR"
        /\ ~btn_simulate_disabled'
        /\ wd_job_disabled'
        /\ job_submit_time' = job_submit_time
        /\ nsub' = nsub
        /\ embeddings_found' = embeddings_found

C11_Unreachable ==
    (nclicks' >= 1) => (job_submit_state' \in RunningStates \cup DoneStates)

\* C11: a tick in a state other than EMBEDDING, SUBMITTED, PENDING,
\* IN_PROGRESS, COMPLETED, CANCELLED, FAILED (READY included) gives ERROR with
\* the submit control enabled and the timer disabled and leaves the timestamp
\* and the payload alone; after a submit request the state stays among the
\* seven known states, so ERROR is not reached.
C11_ErrorState == [][C11_Tick /\ C11_Unreachable]_vars

C11_Witness ==
    /\ last.op = "tick"
    /\ last.ret = "error"
    /\ job_submit_state = "ERROR"
    /\ ~btn_simulate_disabled
    /\ wd_job_disabled
    /\ embeddings_found = NoPayload

\* C12: after a submit request, with the timer firing and the sampler
\* finishing every job it accepted, the state eventually is COMPLETED,
\* CANCELLED or FAILED with the submit control enabled: no failure leaves the
\* session polling in SUBMITTED for ever.
C12_EventuallyDone ==
    (last.op = "click") ~> (job_submit_state \in DoneStates /\ ~btn_simulate_disabled)

\* A step that starts an embedding search.
C13_Searches == IsTick /\ last'.s = 1

C13_SearchOnlyWhenNeeded ==
    C13_Searches =>
        /\ job_submit_state = "EMBEDDING"
        /\ embeddings_found = Needed
        /\ embeddings_found' # Needed

C13_NeededOnlyByRequest ==
    /\ (embeddings_found' = Needed /\ embeddings_found # Needed) => IsClick
    /\ IsClick => embeddings_found # Needed

C13_NoSearchAfterFailure ==
    (IsTick /\ job_submit_state = "FAILED") => (last'.s = 0 /\ job_submit_state' = "FAILED")

\* C13: for each submit request that enters EMBEDDING the embedding search is
\* started at most once: a search is started only by a tick that finds the
\* payload "needed" and that tick replaces the payload; only a submit request
\* writes "needed", and only when no search is outstanding; a tick in FAILED
\* starts no search.
C13_SearchAtMostOnce ==
    [][C13_SearchOnlyWhenNeeded /\ C13_NeededOnlyByRequest /\ C13_NoSearchAfterFailure]_vars

C13_Witness ==
    /\ last.op = "tick"
    /\ last.ret = "done"
    /\ last.s = 0
    /\ qpu_name = Qpu64
    /\ job_submit_state = "FAILED"
    /\ embeddings_found = NotFound
    /\ jobs = <<>>

\* C14: every embedding in the cache maps every edge (i, (i+1) mod N) of its
\* ring to a coupler of the currently selected sampler, the local classical
\* one included.
C14_CacheValidForSelected ==
    (qpu_name \in Qpus) =>
        \A length \in DOMAIN embeddings_cached :
            is_valid_embedding(embeddings_cached[length], length, Edges(qpu_name))

\* C15: pruning an already pruned cache against the same device edge set
\* removes nothing more and gives the same cache.
C15_PruneIdempotent ==
    (args.fn = "validate_and_prune" /\ result.done) =>
        /\ DOMAIN validate_and_prune(result.value, args.target_graph) = DOMAIN result.value
        /\ validate_and_prune(result.value, args.target_graph) = result.value

C15_Witness ==
    /\ args.fn = "validate_and_prune"
    /\ result.done
    /\ DOMAIN args.cached = {3, 4}
    /\ DOMAIN result.value = {4}
    /\ args.target_graph = Qpu2Edges

C16_Step ==
    (last'.op = "select") =>
        LET file_qpu == IF qpu_name' = Classical THEN Qpu64 ELSE qpu_name'
        IN  /\ embedding_is_cached' = DOMAIN embeddings_cached'
            /\ \A length \in DOMAIN embeddings_cached' :
                   /\ HasFile(file_qpu)
                   /\ length \in DOMAIN EmbFile(file_qpu)
                   /\ embeddings_cached'[length] = EmbFile(file_qpu)[length]
                   /\ is_valid_embedding(embeddings_cached'[length], length,
                                         Edges(qpu_name'))

\* C16: after a sampler is selected the cache holds only validated entries
\* loaded from what is persisted for the newly selected sampler (none if
\* nothing is persisted): no entry of the previous sampler's cache and no
\* embedding discovered for it survives the switch.
C16_SwitchEmptiesCache == [][C16_Step]_vars

\* C17: merging a discovered embedding for ring size N sets the cache entry
\* for N to that embedding (a prior entry for N is overwritten), leaves every
\* other entry as it was and makes the list of cached sizes the key set of
\* the cache; with the payload "needed" or "not found" nothing is written.
C17_MergeFrame ==
    (args.fn = "cache_embeddings" /\ result.done) =>
        IF args.found.kind = "found"
        THEN /\ ~result.value.prevented
             /\ ~result.value.raised
             /\ DOMAIN result.value.cached = DOMAIN args.cached \cup {args.found.spins}
             /\ result.value.cached[args.found.spins] = args.found.emb
             /\ \A n \in DOMAIN args.cached \ {args.found.spins} :
                    result.value.cached[n] = args.cached[n]
             /\ result.value.lengths = DOMAIN result.value.cached
        ELSE result.value.prevented

C17_Witness ==
    /\ args.fn = "cache_embeddings"
    /\ result.done
    /\ args.found.kind = "found"
    /\ DOMAIN args.cached = {3, 4}
    /\ args.found.spins = 4
    /\ args.cached[4] # args.found.emb
    /\ result.value.cached[4] = args.found.emb
    /\ result.value.cached[3] = args.cached[3]

\* The cyclic first difference d[i] = s[i] - s[(i-1) mod N] of a row
\* (positions 1..N).
CyclicDiff(row, i) == row[i] - row[((i + Len(row) - 2) % Len(row)) + 1]

KinkCount(row, J) ==
    IF J < 0
    THEN Cardinality({i \in 1..Len(row) : CyclicDiff(row, i) # 0})
    ELSE Cardinality({i \in 1..Len(row) : CyclicDiff(row, i) = 0})

\* C18: for every row of N spins the per-sample kink count is the number of
\* nonzero cyclic differences d[i] = s[i] - s[(i-1) mod N] when J < 0 and the
\* number of zero ones when J >= 0 (J = 0 included); the mean kink density is
\* the sum of the counts divided by (number of rows times N).
C18_KinkCounts ==
    (args.fn = "kink_stats" /\ result.done) =>
        LET S == args.sampleset
            counts == [r \in 1..Len(S) |-> KinkCount(S[r], args.J)]
        IN  /\ result.value.per_sample = counts
            /\ result.value.kink_density.den # 0
            /\ result.value.kink_density.num * (Len(S) * Len(S[1])) =
                   SumSeq(counts) * result.value.kink_density.den

C18_Witness ==
    /\ args.fn = "kink_stats"
    /\ result.done
    /\ args.J = 0
    /\ args.sampleset = <<<<1, 1, 1>>, <<1, 1, -1>>>>
    /\ result.value.per_sample = <<3, 1>>
    /\ result.value.kink_density = [num |-> 4, den |-> 6]

Alternates(row) == \A i \in 1..Len(row) : CyclicDiff(row, i) # 0
IsConstant(row) == \A i \in 1..Len(row) : row[i] = row[1]

\* C19: a sample set whose rows all alternate around the ring has kink
\* density 0 for J >= 0; a sample set whose rows are all constant has kink
\* density 0 for J < 0.
C19_GroundStates ==
    (args.fn = "kink_stats" /\ result.done) =>
        LET S == args.sampleset
        IN  /\ (args.J >= 0 /\ \A r \in 1..Len(S) : Alternates(S[r])) =>
                   (result.value.kink_density.num = 0 /\ result.value.kink_density.den # 0)
            /\ (args.J < 0 /\ \A r \in 1..Len(S) : IsConstant(S[r])) =>
                   (result.value.kink_density.num = 0 /\ result.value.kink_density.den # 0)

C19_Witness ==
    /\ args.fn = "kink_stats"
    /\ result.done
    /\ args.J >= 0
    /\ args.sampleset = <<<<1, -1>>, <<-1, 1>>>>
    /\ result.value.kink_density.num = 0

\* C20: for every positive ring size N and coupling strength J the model
\* built by create_bqm has exactly N variables and exactly N couplings, one
\* on each pair (i, (i+1) mod N), each of strength J.
C20_RingModel ==
    (args.fn = "create_bqm" /\ result.done) =>
        /\ ~result.value.raised
        /\ Cardinality(result.value.variables) = args.num_spins
        /\ Cardinality(DOMAIN result.value.quadratic) = args.num_spins
        /\ \A i \in 0..(args.num_spins - 1) :
               /\ {i, (i + 1) % args.num_spins} \in DOMAIN result.value.quadratic
               /\ result.value.quadratic[{i, (i + 1) % args.num_spins}] = args.J

----------------------------------------------------------------------------
(* The observation history and the graphs *)

IsPrefix(s, t) == Len(s) <= Len(t) /\ \A i \in 1..Len(s) : s[i] = t[i]

\* Every bucket of data is still there in later, with its observations
\* unchanged and in place, possibly followed by new ones.
Kept(data, later) ==
    \A t \in DOMAIN data : t \in DOMAIN later /\ IsPrefix(data[t], later[t])

\* The display call that answers a change of the sampler or of the ring size
\* on the noise-mitigation tab (app.py 413-426).
ResetDue == selected_problem = KZ_NM /\ last.op \in {"select", "spins"}

\* C21 as stated: the observation history is append-only; no event (job
\* completion, sampler change, ring-size change, coupling change, display
\* change) removes or alters an observation once appended, buckets only grow
\* in arrival order.
C21_AppendOnly == [][Kept(coupling_data, coupling_data')]_vars

\* C21, amended: on the noise-mitigation tab a change of the sampler or of
\* the ring size empties the observation history; every other event keeps
\* each bucket, its observations unchanged and in arrival order, and only
\* appends to it.
C21_AppendOnlyUntilReset ==
    [][/\ ~ResetDue => Kept(coupling_data, coupling_data')
       /\ (ResetDue /\ last'.op = "display") => coupling_data' = <<>>]_vars

\* An observation is in the history and a later display call, not a
\* completion, has run and kept it.
C21_Witness ==
    /\ \E t \in DOMAIN coupling_data : Len(coupling_data[t]) >= 1
    /\ last.op = "display"
    /\ last.ret \in {"shown", "refit"}

Bucket(data, ta_str) == IF ta_str \in DOMAIN data THEN data[ta_str] ELSE <<>>

\* A display call on the noise-mitigation tab that refitted the curve: after
\* a completed job, or on a change that redraws the fitted line.
Refitted == selected_problem = KZ_NM /\ last'.op = "display" /\ last'.ret \in {"appended", "refit"}

----------------------------------------------------------------------------
(* The helpers of the graphs, called on their own *)

\* C23: the extrapolation fit fails with an explicit error, instead of
\* returning a fitted curve, whenever the observations contain fewer than 2
\* distinct x (lambda) values, in particular for two observations with
\* identical x and different y.
C23_FitNeedsTwoLambdas ==
    (/\ args.fn = "fitted_function"
     /\ result.done
     /\ Cardinality({args.xdata[i] : i \in 1..Len(args.xdata)}) < 2)
        => result.value.raised

\* The edge set has a cycle through n of its vertices: n edges on n vertices,
\* two at each vertex (one cycle, for the rings of fewer than 6 spins here).
HasCycle(n, edges) ==
    \E E \in SUBSET edges :
        /\ Cardinality(E) = n
        /\ Cardinality(UNION E) = n
        /\ \A v \in UNION E : Cardinality({e \in E : v \in e}) = 2

\* The mapping gives each spin 0..n-1 a chain of one qubit, distinct spins
\* distinct qubits, and sends every ring edge to an edge of the device.
OneToOne(emb, n, edges) ==
    /\ DOMAIN emb = 1..n
    /\ \A k \in 1..n : Len(emb[k]) = 1
    /\ \A i, j \in 1..n : i # j => emb[i][1] # emb[j][1]
    /\ \A i \in 0..(n - 1) : {emb[i + 1][1], emb[((i + 1) % n) + 1][1]} \in edges

SearchDone == args.fn = "find_one_to_one_embedding" /\ result.done

\* C24 as stated: the embedding search for a ring of N spins returns either
\* an empty result or a mapping that gives each spin 0..N-1 a chain of exactly
\* one physical index, distinct indices for distinct spins, every ring edge
\* (i, (i+1) mod N) on an edge of the device; it returns a non-empty mapping
\* whenever the edge set contains an N-cycle and empty when it contains none.
C24_FoundIffCycle ==
    SearchDone =>
        /\ result.value = <<>> \/ OneToOne(result.value, args.spins, args.sampler_edgelist)
        /\ result.value # <<>> <=> HasCycle(args.spins, args.sampler_edgelist)

\* C24, amended: the search returns either an empty result or a valid
\* one-to-one mapping with chains of one; it returns empty when the edge set
\* has no N-cycle, and when it has one it returns a mapping or, if the search
\* runs out of its time, empty.
C24_ValidOrEmpty ==
    SearchDone =>
        /\ result.value = <<>> \/ OneToOne(result.value, args.spins, args.sampler_edgelist)
        /\ ~HasCycle(args.spins, args.sampler_edgelist) => result.value = <<>>

\* A ring of 3 spins was found in the Pegasus graph.
C24_Witness ==
    /\ SearchDone
    /\ args.spins = 3
    /\ args.sampler_edgelist = QpuEdges
    /\ result.value = <<<<0>>, <<1>>, <<2>>>>

\* How far the kink density of row r is from the mean kink density of the
\* rows, times the number of rows and the ring length.
FromMean(S, J, r) ==
    LET total == SumSeq([q \in 1..Len(S) |-> KinkCount(S[q], J)])
    IN  Abs(KinkCount(S[r], J) * Len(S) - total)

\* C25: the representative sample shown after a completed job is a sample
\* row that is closest to the mean: its per-sample kink density (kink count
\* divided by ring length) has minimal absolute distance to the mean kink
\* density over all rows.
C25_ClosestToMean ==
    (args.fn = "best_sample" /\ result.done) =>
        /\ result.value.sample = args.sampleset[result.value.best_indx]
        /\ \A r \in 1..Len(args.sampleset) :
               FromMean(args.sampleset, args.J, result.value.best_indx) <=
                   FromMean(args.sampleset, args.J, r)

----------------------------------------------------------------------------
(* One job at a time *)

\* C26: in every state reachable by submit requests and timer ticks,
\* whenever the job state is EMBEDDING, SUBMITTED, PENDING or IN_PROGRESS the
\* submit control is disabled and the polling timer is enabled, so no second
\* submit request can start while a job is active.
C26_BusyWhileActive ==
    job_submit_state \in RunningStates =>
        /\ btn_simulate_disabled
        /\ ~wd_job_disabled
        /\ ~ENABLED Click

\* A polling tick has seen the job in progress.
C26_Witness ==
    /\ job_submit_state = "IN_PROGRESS"
    /\ last.op = "tick"
    /\ btn_simulate_disabled
    /\ ~wd_job_disabled
    /\ nclicks < MaxClicks

\* The step writes the submission time.
WritesTime == nsub' # nsub

C27_Step ==
    /\ nsub' <= nclicks'
    /\ WritesTime =>
          \/ IsClick /\ (spins \in embedding_is_cached \/ qpu_name = Classical)
          \/ IsTick /\ job_submit_state = "EMBEDDING" /\ embeddings_found # Needed
    /\ (IsTick /\ job_submit_state # "EMBEDDING") =>
          (~WritesTime /\ job_submit_time' = job_submit_time /\ pend_submit' = pend_submit)
    /\ (~IsClick /\ ~IsTick) => (~WritesTime /\ job_submit_time' = job_submit_time)

\* C27: each submit request causes at most one job submission: the
\* submission timestamp (the only trigger of submit_job) is written at most
\* once between a submit request and the next one, either by the click step
\* (cached or classical) or by the single post-embedding tick, and every
\* polling, terminal and ERROR step leaves it unchanged.
C27_OneSubmissionPerRequest == [][C27_Step]_vars

\* Two requests, the second one submitted by its post-embedding tick.
C27_Witness ==
    /\ nclicks = 2
    /\ nsub = 2
    /\ last.op = "tick"
    /\ last.ret = "cached"

\* C28: whenever the job submission step runs for a QPU target, the
\* embedding cache already contains an entry for the requested ring size,
\* for every interleaving of the cache-update callback (triggered by the
\* discovered-embedding payload) with the following timer tick that moves
\* EMBEDDING to SUBMITTED.
C28_CachedBeforeSubmit ==
    [][(last'.op = "submit_job" /\ qpu_name # Classical) =>
           spins \in DOMAIN embeddings_cached]_vars

----------------------------------------------------------------------------
(* The points of the Kibble-Zurek graph *)

\* The display call that answers the tick which saw the job COMPLETED, with
\* the embedding of the ring in the cache.
CompletionShown ==
    /\ TriggeredId = "job_submit_state"
    /\ job_submit_state = "COMPLETED"
    /\ spins \in DOMAIN embeddings_cached
    /\ last'.op = "display"

\* C30: in Kibble-Zurek mode, when a job completes the point (kink_density,
\* anneal time) is appended to the list kz_data["k"] and all earlier points
\* are kept, for every prior sequence of UI events starting from the initial
\* store contents, including when sampler, ring size and coupling strength
\* were never changed before the first completion.
C30_PointAppended ==
    [][(selected_problem = KZ /\ CompletionShown) =>
           /\ kz_data'.has_k
           /\ \E kink_density \in KinkDensities(spins, slider_J) :
                 kz_data'.k = Append(kz_data.k, <<kink_density, anneal_duration>>)]_vars

\* The number of data points the two stores hold.
Points(data, kz) ==
    Len(kz.k) +
    Cardinality({<<t, i>> \in AnnealTimes \X (1..(MaxClicks + 1)) :
                    t \in DOMAIN data /\ i <= Len(data[t])})

\* C29: each job that reaches COMPLETED contributes exactly one data point:
\* the completion is processed once (one CouplingObservation appended in
\* noise-mitigation mode, one (kink_density, anneal time) point in
\* Kibble-Zurek mode), and later timer ticks in COMPLETED do not append again.
C29_OnePointPerJob ==
    [][/\ (selected_problem = KZ_NM /\ CompletionShown) =>
             /\ Len(Bucket(coupling_data', anneal_duration)) =
                    Len(Bucket(coupling_data, anneal_duration)) + 1
             /\ Points(coupling_data', kz_data') = Points(coupling_data, kz_data) + 1
       /\ (selected_problem = KZ /\ CompletionShown) =>
             /\ Len(kz_data'.k) = Len(kz_data.k) + 1
             /\ Points(coupling_data', kz_data') = Points(coupling_data, kz_data) + 1
       /\ ~CompletionShown =>
             Points(coupling_data', kz_data') <= Points(coupling_data, kz_data)]_vars

----------------------------------------------------------------------------
(* The two kink counts of a row *)

\* C31: for every sample row of N spins, the kink count kink_stats returns
\* for J < 0 and the kink count it returns for J >= 0 on the same row add up
\* to N, so the two mean kink densities of one sample set add up to 1.
C31_CountsAddUp ==
    (args.fn = "kink_stats_pair" /\ result.done) =>
        LET S == args.sampleset
            ferro == result.value.ferro
            anti == result.value.anti
        IN  /\ Len(ferro.per_sample) = Len(S) /\ Len(anti.per_sample) = Len(S)
            /\ \A r \in 1..Len(S) :
                   ferro.per_sample[r] + anti.per_sample[r] = Len(S[r])
            /\ ferro.kink_density.den # 0 /\ anti.kink_density.den # 0
            /\ ferro.kink_density.num * anti.kink_density.den
                   + anti.kink_density.num * ferro.kink_density.den
               = ferro.kink_density.den * anti.kink_density.den

\* Two rows of 3 spins, one with two switches and one with none.
C31_Witness ==
    /\ args.fn = "kink_stats_pair"
    /\ result.done
    /\ args.sampleset = <<<<1, 1, -1>>, <<1, 1, 1>>>>
    /\ args.J_anti = 0
    /\ result.value.ferro.per_sample = <<2, 0>>
    /\ result.value.anti.per_sample = <<1, 3>>

====
